---- MODULE Spec2Model ----
(***************************************************************************)
(* Verification model of django-kit-starter.                               *)
(*                                                                         *)
(*   apps/core/auth_backend.py  CustomModelBackend (account lockout)       *)
(*   apps/core/middleware.py    UserIPMiddleware (client IP in session)    *)
(*   apps/core/signals.py       post_save handlers of User                 *)
(*   apps/core/querysets.py     BaseQuerySet (soft delete, block)          *)
(*   apps/core/managers.py      BaseManager and the managers built on it   *)
(*   apps/core/services.py      single-instance and bulk transitions       *)
(*   apps/core/admin.py         BaseAuditAdmin (bulk actions, save_model)  *)
(*                                                                         *)
(* Time is counted in minutes.  Null stands for Python's None in a         *)
(* DateTimeField, NoIp for None in an IP field.                            *)
(***************************************************************************)
EXTENDS Integers, Sequences, FiniteSets, TLC

VARIABLES
    now,        \* timezone.now(), in minutes
    users,      \* the rows of the User table, by primary key
    last,       \* the authenticate call that has just returned (history)
    wrongRun,   \* per account: wrong-password calls in a row, begun unlocked at 0 (history)
    recent,     \* per account: the outcomes of its latest calls (history)
    lastSave,   \* the User save that has just returned (history)
    records,    \* the rows of one table of an audited model, by primary key
    kind,       \* the model class that table belongs to
    instance,   \* a model instance a caller holds in memory
    lastOp,     \* the transition or query that has just returned (history)
    blockLog,   \* per record: the latest block or unblock call on it (history)
    tx,         \* the bulk transition in progress inside transaction.atomic
    calls,      \* the authenticate calls in progress, one per worker
    orders,     \* the rows of the Order table, by primary key
    stock,      \* Product.stock, by product
    coupons,    \* the rows of the Coupon table, by code
    people,     \* the rows of the Person table, by primary key
    addresses,  \* the rows of the Address table, by primary key
    parent,     \* Category.parent, by category
    appOp       \* the model method that has just returned (history)

auditVars == <<records, kind, instance, lastOp, blockLog, tx>>

appVars == <<orders, stock, coupons, people, addresses, parent, appOp>>

vars ==
    <<now, users, last, wrongRun, recent, lastSave, auditVars, calls, appVars>>

----------------------------------------------------------------------------
(* Bounds of the model *)

MaxTime == 20           \* the clock stops here
TickStep == 5           \* minutes between two observable instants
RecursionLimit == 2     \* nested save() calls before the interpreter gives up

(* Constants of the program *)

max_attempts == 3       \* auth_backend.py:79
lock_minutes == 15      \* auth_backend.py:82

Null == -1
NoIp == "None"

----------------------------------------------------------------------------
(* The User table *)

Accounts == {"u1", "u2"}

RawPasswords == {"pw1", "pw2"}

\* django.contrib.auth.hashers.make_password: the stored value is a hash of
\* the raw password, never the raw password itself.
make_password(raw) == <<"md5", raw>>

\* AbstractUser.check_password as called by authenticate.
check_password(user, raw) == user.password = make_password(raw)

UserFields ==
    {"id", "username", "email", "password", "last_login_ip",
     "password_change_required", "last_password_change_at",
     "failed_login_attempts", "locked_until", "is_temporary"}

\* A freshly created account: the field defaults of the User model.
NewUser(pk, name, mail, raw) ==
    [id |-> pk, username |-> name, email |-> mail,
     password |-> make_password(raw),
     last_login_ip |-> NoIp,
     password_change_required |-> TRUE,
     last_password_change_at |-> 0,
     failed_login_attempts |-> 0,
     locked_until |-> Null,
     is_temporary |-> FALSE]

\* Two accounts.  The username field accepts the characters of an e-mail
\* address, and the e-mail of u2 is the string that is the username of u1.
InitialUsers ==
    [u \in Accounts |->
        IF u = "u1" THEN NewUser("u1", "n1", "e1", "pw1")
                    ELSE NewUser("u2", "n2", "n1", "pw1")]

----------------------------------------------------------------------------
(* Model.save(update_fields=...) and the post_save receivers of signals.py *)

AllFields == UserFields \ {"id"}

\* The UPDATE statement of Model.save: only the named columns are written.
WriteRow(db, inst, fields) ==
    [db EXCEPT ![inst.id] =
        [f \in UserFields |-> IF f \in fields THEN inst[f] ELSE @[f]]]

RECURSIVE save(_, _, _, _, _)
RECURSIVE update_password_change_timestamp(_, _, _, _)
RECURSIVE reset_password_change_required(_, _, _, _)

\* signals.py:29-50.  The receiver runs after the row was written and
\* compares the instance with the row it reads back.
update_password_change_timestamp(db, inst, t, depth) ==
    IF db[inst.id].password # inst.password
    THEN LET stamped == [inst EXCEPT !.last_password_change_at = t]
         IN  IF depth >= RecursionLimit
             THEN [db |-> db, inst |-> stamped, exc |-> "RecursionError"]
             ELSE save(db, stamped, {"last_password_change_at"}, t, depth + 1)
    ELSE [db |-> db, inst |-> inst, exc |-> ""]

\* signals.py:53-74.
reset_password_change_required(db, inst, t, depth) ==
    IF db[inst.id].password # inst.password
    THEN LET cleared == [inst EXCEPT !.password_change_required = FALSE]
         IN  IF depth >= RecursionLimit
             THEN [db |-> db, inst |-> cleared, exc |-> "RecursionError"]
             ELSE save(db, cleared, {"password_change_required"}, t, depth + 1)
    ELSE [db |-> db, inst |-> inst, exc |-> ""]

\* Model.save of an existing row (created = False): write, then send
\* post_save to the receivers in the order signals.py registers them.  An
\* exception of a receiver propagates; the write is already committed.
save(db, inst, fields, t, depth) ==
    LET written == WriteRow(db, inst, fields)
        first   == update_password_change_timestamp(written, inst, t, depth)
    IN  IF first.exc # "" THEN first
        ELSE reset_password_change_required(first.db, first.inst, t, depth)

----------------------------------------------------------------------------
(* The request handed to authenticate *)

\* Python keeps the attributes of an object and the items of a mapping
\* apart: session["k"] = v stores an item, getattr(session, "k") reads an
\* attribute.  Both are modelled as sets of <<key, value>> pairs.
Lookup(pairs, key, default) ==
    IF \E p \in pairs : p[1] = key
    THEN (CHOOSE p \in pairs : p[1] = key)[2]
    ELSE default

getattr(obj, name, default) == Lookup(obj.attrs, name, default)

SetItem(obj, key, value) ==
    [obj EXCEPT !.items = {p \in @ : p[1] # key} \cup {<<key, value>>}]

\* A SessionStore as SessionMiddleware attaches it: no items yet, and no
\* attribute named user_ip.
EmptySession == [attrs |-> {}, items |-> {}]

\* request.META of the requests the model sends.  HTTP_X_FORWARDED_FOR is
\* kept as the list of its comma-separated, stripped tokens.
ForwardedMeta ==
    [HTTP_X_FORWARDED_FOR |-> <<"ip1", "ip2">>, HTTP_X_REAL_IP |-> NoIp,
     REMOTE_ADDR |-> "ip2"]

DirectMeta ==
    [HTTP_X_FORWARDED_FOR |-> <<>>, HTTP_X_REAL_IP |-> NoIp,
     REMOTE_ADDR |-> "ip2"]

\* middleware.py:38-50
get_client_ip(meta) ==
    IF meta.HTTP_X_FORWARDED_FOR # <<>>
    THEN Head(meta.HTTP_X_FORWARDED_FOR)
    ELSE IF meta.HTTP_X_REAL_IP # NoIp THEN meta.HTTP_X_REAL_IP
         ELSE meta.REMOTE_ADDR

\* middleware.py:17-22: the request as UserIPMiddleware passes it on to the
\* view that calls authenticate.
MiddlewareRequest(meta) ==
    [kind |-> "HttpRequest", META |-> meta,
     session |-> SetItem(EmptySession, "user_ip", get_client_ip(meta))]

\* A request that did not pass UserIPMiddleware (it is not in MIDDLEWARE).
PlainRequest(meta) ==
    [kind |-> "HttpRequest", META |-> meta, session |-> EmptySession]

\* authenticate(request=None, ...)
NoRequest == [kind |-> "None"]

Requests ==
    {NoRequest, MiddlewareRequest(ForwardedMeta), MiddlewareRequest(DirectMeta),
     PlainRequest(DirectMeta)}

\* The client IP a request carries, when it carries one.
ClientIp(request) ==
    IF request.kind = "None" THEN NoIp
    ELSE Lookup(request.session.items, "user_ip", NoIp)

----------------------------------------------------------------------------
(* CustomModelBackend *)

\* Variant: the lock is taken to have expired at the instant locked_until
\* itself (>= for >).
is_account_locked_inclusive(db, user, t) ==
    IF user.locked_until = Null
    THEN [locked |-> FALSE, db |-> db, user |-> user, exc |-> ""]
    ELSE IF t >= user.locked_until
         THEN LET reset == [user EXCEPT !.locked_until = Null,
                                        !.failed_login_attempts = 0]
                  s == save(db, reset,
                            {"locked_until", "failed_login_attempts"}, t, 0)
              IN  [locked |-> FALSE, db |-> s.db, user |-> s.inst,
                   exc |-> s.exc]
         ELSE [locked |-> TRUE, db |-> db, user |-> user, exc |-> ""]

\* Variant: the comparison is turned round (< for >).
is_account_locked_inverted(db, user, t) ==
    IF user.locked_until = Null
    THEN [locked |-> FALSE, db |-> db, user |-> user, exc |-> ""]
    ELSE IF t < user.locked_until
         THEN LET reset == [user EXCEPT !.locked_until = Null,
                                        !.failed_login_attempts = 0]
                  s == save(db, reset,
                            {"locked_until", "failed_login_attempts"}, t, 0)
              IN  [locked |-> FALSE, db |-> s.db, user |-> s.inst,
                   exc |-> s.exc]
         ELSE [locked |-> TRUE, db |-> db, user |-> user, exc |-> ""]

\* Variant: an expired lock is cleared but the counter is left as it is.
is_account_locked_keeps_counter(db, user, t) ==
    IF user.locked_until = Null
    THEN [locked |-> FALSE, db |-> db, user |-> user, exc |-> ""]
    ELSE IF t > user.locked_until
         THEN LET reset == [user EXCEPT !.locked_until = Null]
                  s == save(db, reset,
                            {"locked_until", "failed_login_attempts"}, t, 0)
              IN  [locked |-> FALSE, db |-> s.db, user |-> s.inst,
                   exc |-> s.exc]
         ELSE [locked |-> TRUE, db |-> db, user |-> user, exc |-> ""]

\* auth_backend.py:40-53
is_account_locked(db, user, t) ==
    IF user.locked_until = Null
    THEN [locked |-> FALSE, db |-> db, user |-> user, exc |-> ""]
    ELSE IF t > user.locked_until
         THEN LET reset == [user EXCEPT !.locked_until = Null,
                                        !.failed_login_attempts = 0]
                  s == save(db, reset,
                            {"locked_until", "failed_login_attempts"}, t, 0)
              IN  [locked |-> FALSE, db |-> s.db, user |-> s.inst,
                   exc |-> s.exc]
         ELSE [locked |-> TRUE, db |-> db, user |-> user, exc |-> ""]

\* Variant: a success clears the lock but not the counter.
handle_successful_login_keeps_counter(db, user, request, t) ==
    LET reset == [user EXCEPT !.locked_until = Null]
    IN  IF request.kind = "None"
        THEN [db |-> db, inst |-> reset, exc |-> "AttributeError"]
        ELSE LET user_ip == getattr(request.session, "user_ip", NoIp)
                 withIp  == IF user_ip # NoIp
                            THEN [reset EXCEPT !.last_login_ip = user_ip]
                            ELSE reset
             IN  save(db, withIp,
                      {"failed_login_attempts", "locked_until",
                       "last_login_ip"}, t, 0)

\* auth_backend.py:55-72
handle_successful_login(db, user, request, t) ==
    LET reset == [user EXCEPT !.failed_login_attempts = 0,
                              !.locked_until = Null]
    IN  IF request.kind = "None"
        THEN \* request.session on None
             [db |-> db, inst |-> reset, exc |-> "AttributeError"]
        ELSE LET user_ip == getattr(request.session, "user_ip", NoIp)
                 withIp  == IF user_ip # NoIp
                            THEN [reset EXCEPT !.last_login_ip = user_ip]
                            ELSE reset
             IN  save(db, withIp,
                      {"failed_login_attempts", "locked_until",
                       "last_login_ip"}, t, 0)

\* Variant: the lock is set only once the counter exceeds max_attempts
\* (> for >=).
handle_failed_login_late_lock(db, user, request, t) ==
    LET counted == [user EXCEPT !.failed_login_attempts = @ + 1]
        locked  == IF counted.failed_login_attempts > max_attempts
                   THEN [counted EXCEPT !.locked_until = t + lock_minutes]
                   ELSE counted
    IN  save(db, locked, {"failed_login_attempts", "locked_until"}, t, 0)

\* auth_backend.py:74-89
handle_failed_login(db, user, request, t) ==
    LET counted == [user EXCEPT !.failed_login_attempts = @ + 1]
        locked  == IF counted.failed_login_attempts >= max_attempts
                   THEN [counted EXCEPT !.locked_until = t + lock_minutes]
                   ELSE counted
    IN  save(db, locked, {"failed_login_attempts", "locked_until"}, t, 0)

\* Variant: the e-mail is tried before the username.
FindUser_email_first(db, username) ==
    LET byName == {u \in DOMAIN db : db[u].username = username}
        byMail == {u \in DOMAIN db : db[u].email = username}
    IN  IF Cardinality(byMail) = 1
        THEN [exc |-> "", by |-> "email", pk |-> CHOOSE u \in byMail : TRUE]
        ELSE IF Cardinality(byMail) > 1
        THEN [exc |-> "MultipleObjectsReturned", by |-> "email",
              pk |-> "none"]
        ELSE IF byName = {}
             THEN [exc |-> "DoesNotExist", by |-> "username", pk |-> "none"]
             ELSE [exc |-> "", by |-> "username",
                   pk |-> CHOOSE u \in byName : TRUE]

\* User.objects.get(username=...) / get(email=...), auth_backend.py:21-27.
\* username is unique; email is not, and get() raises
\* MultipleObjectsReturned when several rows match.
FindUser(db, username) ==
    LET byName == {u \in DOMAIN db : db[u].username = username}
        byMail == {u \in DOMAIN db : db[u].email = username}
    IN  IF byName # {}
        THEN [exc |-> "", by |-> "username", pk |-> CHOOSE u \in byName : TRUE]
        ELSE IF byMail = {}
             THEN [exc |-> "DoesNotExist", by |-> "email", pk |-> "none"]
             ELSE IF Cardinality(byMail) = 1
                  THEN [exc |-> "", by |-> "email",
                        pk |-> CHOOSE u \in byMail : TRUE]
                  ELSE [exc |-> "MultipleObjectsReturned", by |-> "email",
                        pk |-> "none"]

\* auth_backend.py:18-38.  ret is "user" (the user is returned), "None"
\* (refusal) or "raise" (exc names the exception that leaves the call).
authenticate(db, request, username, password, t) ==
    IF username = "" \/ password = ""
    THEN [db |-> db, ret |-> "None", exc |-> "", pk |-> "none",
          by |-> "none", checked |-> FALSE, locked |-> FALSE]
    ELSE
    LET found == FindUser(db, username)
    IN  IF found.exc = "DoesNotExist"
        THEN [db |-> db, ret |-> "None", exc |-> "", pk |-> "none",
              by |-> "none", checked |-> FALSE, locked |-> FALSE]
        ELSE IF found.exc # ""
        THEN [db |-> db, ret |-> "raise", exc |-> found.exc, pk |-> "none",
              by |-> "none", checked |-> FALSE, locked |-> FALSE]
        ELSE
        LET user == db[found.pk]
            lk   == is_account_locked(db, user, t)
        IN  IF lk.exc # ""
            THEN [db |-> lk.db, ret |-> "raise", exc |-> lk.exc,
                  pk |-> found.pk, by |-> found.by, checked |-> FALSE,
                  locked |-> FALSE]
            ELSE IF lk.locked
            THEN [db |-> lk.db, ret |-> "None", exc |-> "", pk |-> found.pk,
                  by |-> found.by, checked |-> FALSE, locked |-> TRUE]
            ELSE IF check_password(lk.user, password)
            THEN LET ok == handle_successful_login(lk.db, lk.user, request, t)
                 IN  [db |-> ok.db,
                      ret |-> IF ok.exc = "" THEN "user" ELSE "raise",
                      exc |-> ok.exc, pk |-> found.pk, by |-> found.by,
                      checked |-> TRUE, locked |-> FALSE]
            ELSE LET ko == handle_failed_login(lk.db, lk.user, request, t)
                 IN  [db |-> ko.db,
                      ret |-> IF ko.exc = "" THEN "None" ELSE "raise",
                      exc |-> ko.exc, pk |-> found.pk, by |-> found.by,
                      checked |-> TRUE, locked |-> FALSE]

----------------------------------------------------------------------------
(* The audited models: AuditModel rows, BaseQuerySet, the managers *)

AuditMaxTime == 7       \* the clock of the audit layer stops here

\* The staff users that act on records.
Actors == {"alice", "bob"}

\* None in a foreign key to User.
NoUser == "None"

\* None as a primary key.
NoPk == "None"

\* Primary keys (uuid4 values) the tables of the model may hold.
Ids == {"r1", "r2"}

\* A model whose manager inherits BaseManager.get_queryset (Person, and
\* the models that keep BaseModel.objects) and one whose manager overrides
\* it (Category; Product, Order and ExchangeRate do the same).
ModelClasses == {"Person", "Category"}

\* models.py:49-122: an instance as the constructor makes it.  The primary
\* key is filled in by default=uuid.uuid4 when the instance is built.
NewInstance(pk) ==
    [id |-> pk, deleted_at |-> Null, deleted_by |-> NoUser,
     blocked_at |-> Null, blocked_by |-> NoUser,
     created_by |-> NoUser, updated_by |-> NoUser]

\* models.py:64-68
is_deleted(inst) == inst.deleted_at # Null

\* A QuerySet is the conjunction of the filters put on it; it is evaluated
\* against the table when it is used, not when it is built.
BaseQuerySet == [not_deleted |-> FALSE, deleted |-> FALSE, pks |-> Ids]

\* querysets.py:39-43
not_deleted(qs) == [qs EXCEPT !.not_deleted = TRUE]

\* querysets.py:45-49
deleted(qs) == [qs EXCEPT !.deleted = TRUE]

\* QuerySet.filter(pk__in=...), filter(pk=...)
filter_pk(qs, pks) == [qs EXCEPT !.pks = @ \cap pks]

\* The rows a queryset matches.
Rows(qs, db) ==
    {id \in DOMAIN db :
        /\ id \in qs.pks
        /\ qs.not_deleted => db[id].deleted_at = Null
        /\ qs.deleted => db[id].deleted_at # Null}

\* QuerySet.update(**changes): one UPDATE statement; returns the number of
\* rows matched.
update(qs, db, changes) ==
    [db |-> [id \in DOMAIN db |->
                IF id \in Rows(qs, db)
                THEN [f \in DOMAIN db[id] |->
                        IF f \in DOMAIN changes THEN changes[f] ELSE db[id][f]]
                ELSE db[id]],
     count |-> Cardinality(Rows(qs, db))]

\* querysets.py:13-15
soft_delete_unsigned(qs, db, user, t) ==
    update(qs, db, [deleted_at |-> t])

soft_delete(qs, db, user, t) ==
    update(qs, db, [deleted_at |-> t, deleted_by |-> user])

\* querysets.py:17-19
restore_clears_block(qs, db) ==
    update(qs, db, [deleted_at |-> Null, deleted_by |-> NoUser,
                    blocked_at |-> Null, blocked_by |-> NoUser])

restore(qs, db) ==
    update(qs, db, [deleted_at |-> Null, deleted_by |-> NoUser])

\* querysets.py:21-25
blocked_keeps_first(qs, db, user, t) ==
    update([qs EXCEPT !.pks = {id \in @ \cap DOMAIN db : db[id].blocked_at = Null}],
           db, [blocked_at |-> t, blocked_by |-> user])

blocked(qs, db, user, t) ==
    update(qs, db, [blocked_at |-> t, blocked_by |-> user])

\* querysets.py:27-31
unblocked(qs, db) ==
    update(qs, db, [blocked_at |-> Null, blocked_by |-> NoUser])

\* core/managers.py:16-17
BaseManager_get_queryset == not_deleted(BaseQuerySet)

\* store/managers.py:15-17: the override returns the queryset of the model
\* as it is (so do store/managers.py:37-39, 67-69, core/managers.py:122-123).
CategoryManager_get_queryset == BaseQuerySet

\* Model.objects.get_queryset(): PersonManager inherits BaseManager's.
get_queryset(model) ==
    IF model = "Person" THEN BaseManager_get_queryset
    ELSE CategoryManager_get_queryset

\* managers.py:19-23
all_with_deleted == BaseQuerySet

\* managers.py:31-35
manager_deleted == deleted(BaseQuerySet)

\* managers.py:25-29: Model.objects.restore()
manager_restore(model, db) == restore(get_queryset(model), db)

\* Model.refresh_from_db(): the instance takes the stored values.
refresh_from_db(db, inst) == db[inst.id]

----------------------------------------------------------------------------
(* services.py *)

\* services.py:6-20
soft_delete_instance(db, inst, user, t) ==
    IF is_deleted(inst) THEN [db |-> db, inst |-> inst]
    ELSE LET done == soft_delete(filter_pk(all_with_deleted, {inst.id}),
                                 db, user, t).db
         IN  [db |-> done, inst |-> refresh_from_db(done, inst)]

\* services.py:23-37
restore_instance_unguarded(db, inst, user) ==
    LET done == restore(filter_pk(all_with_deleted, {inst.id}), db).db
    IN  [db |-> done, inst |-> refresh_from_db(done, inst)]

restore_instance(db, inst, user) ==
    IF ~is_deleted(inst) THEN [db |-> db, inst |-> inst]
    ELSE LET done == restore(filter_pk(all_with_deleted, {inst.id}), db).db
         IN  [db |-> done, inst |-> refresh_from_db(done, inst)]

\* services.py:40-51
block_instance(db, inst, user, t) ==
    LET done == blocked(filter_pk(all_with_deleted, {inst.id}), db, user, t).db
    IN  [db |-> done, inst |-> refresh_from_db(done, inst)]

\* services.py:54-65
unblock_instance(db, inst, user) ==
    LET done == unblocked(filter_pk(all_with_deleted, {inst.id}), db).db
    IN  [db |-> done, inst |-> refresh_from_db(done, inst)]

\* services.py:68-75
bulk_soft_delete(queryset, db, user, t) == soft_delete(queryset, db, user, t)

\* services.py:78-85
bulk_restore(queryset, db, user) == restore(deleted(queryset), db)

\* services.py:88-94
bulk_block(queryset, db, user, t) == blocked(queryset, db, user, t)

\* services.py:97-103
bulk_unblock(queryset, db, user) == unblocked(queryset, db)

\* The four bulk transitions by name.
bulk_call(op, queryset, db, user, t) ==
    CASE op = "bulk_soft_delete" -> bulk_soft_delete(queryset, db, user, t)
      [] op = "bulk_restore" -> bulk_restore(queryset, db, user)
      [] op = "bulk_block" -> bulk_block(queryset, db, user, t)
      [] op = "bulk_unblock" -> bulk_unblock(queryset, db, user)

BulkOps == {"bulk_soft_delete", "bulk_restore", "bulk_block", "bulk_unblock"}

\* transaction.atomic: leaving the block normally commits what the block
\* wrote (pending) over the stored table (committed).
atomic_commit(committed, pending) == pending

\* Variant: the writes made before the error stay.
atomic_rollback_keeps_writes(committed, pending) == pending

\* transaction.atomic: leaving the block with an exception rolls back, and
\* the exception goes on to the caller.
atomic_rollback(committed, pending) == committed

\* admin.py:201-208.  obj.pk is never empty: the constructor has filled it.
save_model(db, user, obj) ==
    LET owned == IF obj.id = NoPk
                 THEN [obj EXCEPT !.created_by = user]
                 ELSE obj
        saved == [owned EXCEPT !.updated_by = user]
    IN  [id \in DOMAIN db \cup {saved.id} |->
            IF id = saved.id THEN saved ELSE db[id]]

----------------------------------------------------------------------------
(* store/models.py: Order, OrderItem, Product.stock *)

OrderIds == {"o1", "o2"}

Products == {"p1", "p2"}

\* None in a CharField or TextField argument.
NoText == "None"

\* store/choices.py:4-8
OrderStatus == {"PENDING", "PROCESSING", "COMPLETED", "CANCELLED"}

\* The order as Order(...) builds it, in the status staff has moved it to.
NewOrder(pk, status) ==
    [id |-> pk, status |-> status, paid |-> FALSE, payment_date |-> Null,
     shipped_date |-> Null, tracking_number |-> NoText, notes |-> NoText,
     discount_amount |-> 0]

OrderFields ==
    {"id", "status", "paid", "payment_date", "shipped_date",
     "tracking_number", "notes", "discount_amount"}

\* self.items.all(): one item per product (unique_together), quantity >= 1.
OrderItems ==
    [o \in OrderIds |->
        IF o = "o1"
        THEN <<[product |-> "p1", quantity |-> 2],
               [product |-> "p2", quantity |-> 1]>>
        ELSE <<[product |-> "p1", quantity |-> 1]>>]

InitialStock == [p \in Products |-> IF p = "p1" THEN 1 ELSE 0]

\* Order.save(update_fields=fields)
SaveOrder(db, self, fields) ==
    [db EXCEPT ![self.id] =
        [f \in OrderFields |-> IF f \in fields THEN self[f] ELSE @[f]]]

\* Variant: every status can be cancelled.
can_be_cancelled_any(self) ==
    self.status \in OrderStatus

\* store/models.py:710-713
can_be_cancelled(self) ==
    self.status \in {"PENDING", "PROCESSING"}

\* Variant: payment is not looked at.
can_be_shipped_unpaid(self) ==
    self.status = "PROCESSING"

\* store/models.py:715-718
can_be_shipped(self) ==
    self.paid /\ self.status = "PROCESSING"

\* store/models.py:791-800
mark_as_paid(db, self, payment_date, t) ==
    IF ~self.paid
    THEN LET paid == [self EXCEPT
                        !.paid = TRUE,
                        !.payment_date = IF payment_date # Null
                                         THEN payment_date ELSE t]
         IN  SaveOrder(db, paid, {"paid", "payment_date"})
    ELSE db

\* store/models.py:802-814
mark_as_shipped(db, self, tracking_number, t) ==
    IF can_be_shipped(self)
    THEN LET shipped == [self EXCEPT
                            !.status = "COMPLETED",
                            !.shipped_date = t,
                            !.tracking_number =
                                IF tracking_number # NoText
                                THEN tracking_number ELSE @]
         IN  SaveOrder(db, shipped,
                       {"status", "shipped_date", "tracking_number"})
    ELSE db

\* store/models.py:422-432, with the product.save() of line 825
increase_stock(stk, product, quantity) ==
    [stk EXCEPT ![product] = @ + quantity]

RECURSIVE RestoreStock(_, _)
\* store/models.py:823-825: the loop over the items.
RestoreStock(stk, items) ==
    IF items = <<>> THEN stk
    ELSE RestoreStock(increase_stock(stk, Head(items).product,
                                     Head(items).quantity),
                      Tail(items))

\* store/models.py:816-833
cancel_order(db, stk, self, reason) ==
    IF ~can_be_cancelled(self)
    THEN [db |-> db, stock |-> stk, ret |-> FALSE]
    ELSE LET cancelled == [self EXCEPT
                              !.status = "CANCELLED",
                              !.notes = IF reason # NoText THEN reason ELSE @]
         IN  [db |-> SaveOrder(db, cancelled, {"status", "notes"}),
              stock |-> RestoreStock(stk, OrderItems[self.id]),
              ret |-> TRUE]

----------------------------------------------------------------------------
(* peoples/models.py: Person.approve, Person.reject *)

PersonIds == {"h1"}

\* A person nobody has decided on.  valid says whether the other fields
\* pass full_clean (document number, names, birth date, uniqueness).
NewPerson(pk, valid) ==
    [id |-> pk, valid |-> valid, approved_at |-> Null,
     approved_by |-> NoUser, rejected_at |-> Null, rejected_by |-> NoUser]

PersonFields ==
    {"id", "valid", "approved_at", "approved_by", "rejected_at",
     "rejected_by"}

\* peoples/models.py:223-256: Person.clean within full_clean; TRUE when a
\* ValidationError is raised.
PersonCleanFails(self) ==
    \/ ~self.valid
    \/ self.approved_at # Null /\ self.rejected_at # Null

\* peoples/models.py:258-265: Person.save(update_fields=fields)
SavePerson(db, self, fields) ==
    IF PersonCleanFails(self)
    THEN [db |-> db, exc |-> "ValidationError"]
    ELSE [db |-> [db EXCEPT ![self.id] =
                    [f \in PersonFields |->
                        IF f \in fields THEN self[f] ELSE @[f]]],
          exc |-> ""]

ApprovalFields ==
    {"approved_at", "approved_by", "rejected_at", "rejected_by"}

\* Variant: no test of is_approved.
approve_unguarded(db, self, user, t) ==
    SavePerson(db, [self EXCEPT !.approved_at = t, !.approved_by = user,
                                !.rejected_at = Null, !.rejected_by = NoUser],
               ApprovalFields)

\* peoples/models.py:267-285
approve(db, self, user, t) ==
    IF self.approved_at # Null
    THEN [db |-> db, exc |-> "ValidationError"]
    ELSE SavePerson(db, [self EXCEPT !.approved_at = t,
                                     !.approved_by = user,
                                     !.rejected_at = Null,
                                     !.rejected_by = NoUser],
                    ApprovalFields)

\* peoples/models.py:287-305
reject(db, self, user, t) ==
    IF self.rejected_at # Null
    THEN [db |-> db, exc |-> "ValidationError"]
    ELSE SavePerson(db, [self EXCEPT !.rejected_at = t,
                                     !.rejected_by = user,
                                     !.approved_at = Null,
                                     !.approved_by = NoUser],
                    ApprovalFields)

----------------------------------------------------------------------------
(* peoples/managers.py and peoples/models.py: Address *)

AddressIds == {"a1", "a2", "a3"}

Owners == {"h1", "h2"}

\* A keyword argument is_default / is_billing: absent, True or False.
Flags == {"None", "True", "False"}

\* QuerySet.update(is_default=False) / (is_billing=False) over the rows of
\* person, without the row skip; with onlyDefault the filter has
\* is_default=True as well.
ClearFlag(db, person, skip, flag, onlyDefault) ==
    [a \in DOMAIN db |->
        IF /\ db[a].person = person /\ a # skip
           /\ onlyDefault => db[a].is_default
        THEN [db[a] EXCEPT ![flag] = FALSE]
        ELSE db[a]]

\* Model.save of the instance: its row is inserted or rewritten.
WriteAddress(db, self) ==
    [a \in DOMAIN db \cup {self.id} |-> IF a = self.id THEN self ELSE db[a]]

\* peoples/models.py:385-392
Address_save(db, self) ==
    LET cleared == IF self.is_default
                   THEN ClearFlag(db, self.person, self.id, "is_default",
                                  TRUE)
                   ELSE db
    IN  WriteAddress(cleared, self)

\* peoples/models.py:394-397
set_as_default(db, self) ==
    Address_save(db, [self EXCEPT !.is_default = TRUE])

\* peoples/managers.py:24-55.  pk is the primary key the new row gets.
create_address(db, pk, person, is_default, is_billing) ==
    LET d == IF is_default
             THEN ClearFlag(db, person, NoPk, "is_default", FALSE) ELSE db
        b == IF is_billing
             THEN ClearFlag(d, person, NoPk, "is_billing", FALSE) ELSE d
    IN  Address_save(b, [id |-> pk, person |-> person,
                         is_default |-> is_default,
                         is_billing |-> is_billing])

\* peoples/managers.py:57-76.  is_default and is_billing are popped from
\* kwargs, so the loop over kwargs does not set them on the instance.
update_address(db, address_instance, is_default, is_billing) ==
    LET d == IF is_default # "None" /\ is_default = "True"
             THEN ClearFlag(db, address_instance.person, address_instance.id,
                            "is_default", FALSE)
             ELSE db
        b == IF is_billing # "None" /\ is_billing = "True"
             THEN ClearFlag(d, address_instance.person, address_instance.id,
                            "is_billing", FALSE)
             ELSE d
    IN  Address_save(b, address_instance)

----------------------------------------------------------------------------
(* store/models.py: Coupon, Order.apply_coupon *)

MaxApplied == 3         \* successful applications counted per coupon

CouponCodes == {"c1", "c2"}

\* The coupon codes callers pass; "zz" is no coupon.
CodeInputs == CouponCodes \cup {"zz"}

\* c1: a fixed amount, to be used once; c2: a percentage, to be used twice.
InitialCoupons ==
    [c \in CouponCodes |->
        IF c = "c1"
        THEN [code |-> "c1", active |-> TRUE, discount_type |-> "fixed",
              discount_value |-> 5, valid_from |-> 0, valid_to |-> MaxTime,
              usage_limit |-> 1, usage_count |-> 0]
        ELSE [code |-> "c2", active |-> TRUE, discount_type |-> "percentage",
              discount_value |-> 50, valid_from |-> 0, valid_to |-> MaxTime,
              usage_limit |-> 2, usage_count |-> 0]]

\* Order.total_cost: the sum of price * quantity over the items.
Subtotal == [o \in OrderIds |-> IF o = "o1" THEN 30 ELSE 10]

\* store/models.py:1111-1139, called without an order.  A usage_limit of 0
\* or None is no limit.
is_valid(self, t) ==
    IF ~self.active THEN FALSE
    ELSE IF ~(self.valid_from <= t /\ t <= self.valid_to) THEN FALSE
    ELSE IF self.usage_limit # 0 /\ self.usage_count >= self.usage_limit
         THEN FALSE
    ELSE TRUE

\* store/models.py:1141-1160; no maximum_discount_amount is set.
get_discount_amount(self, order_total, t) ==
    IF ~is_valid(self, t) THEN 0
    ELSE IF self.discount_type = "percentage"
         THEN (order_total * self.discount_value) \div 100
         ELSE self.discount_value

\* store/models.py:1174-1177
increment_usage(db, self) ==
    [db EXCEPT ![self.code].usage_count = self.usage_count + 1]

\* store/models.py:772-789.  Coupon.objects.get(code=..., active=True)
\* raises DoesNotExist when no row matches.
apply_coupon(db, cps, self, coupon_code, t) ==
    IF coupon_code \in DOMAIN cps /\ cps[coupon_code].active
    THEN LET coupon == cps[coupon_code]
         IN  IF is_valid(coupon, t)
             THEN LET discount_amount ==
                          get_discount_amount(coupon, Subtotal[self.id], t)
                  IN  [db |-> SaveOrder(db,
                                 [self EXCEPT
                                    !.discount_amount = discount_amount],
                                 {"discount_amount"}),
                       ret |-> TRUE]
             ELSE [db |-> db, ret |-> FALSE]
    ELSE [db |-> db, ret |-> FALSE]

----------------------------------------------------------------------------
(* store/models.py: Category.parent, Category.clean, Category.ancestors *)

Categories == {"k1", "k2", "k3"}

\* store/models.py:84-88; TRUE when ValidationError is raised.  new_parent
\* is the parent set on the instance, NoPk for None.
CategoryCleanFails(self, new_parent) ==
    new_parent # NoPk /\ new_parent = self

RECURSIVE Climb(_, _, _)
\* store/models.py:115-118: the while loop, from the category p on, after
\* steps iterations.  The loop keeps no record of where it has been; once
\* it has made more iterations than there are categories it is going round
\* a cycle and does not end.
Climb(par, p, steps) ==
    IF p = NoPk THEN TRUE
    ELSE IF steps > Cardinality(DOMAIN par) THEN FALSE
    ELSE Climb(par, par[p], steps + 1)

\* store/models.py:107-120; TRUE when the call returns.
ancestors(par, self) == Climb(par, par[self], 0)

----------------------------------------------------------------------------
(* History: what the call that has just returned was and did *)

NoCall ==
    [op |-> "none", pk |-> "none", by |-> "none", username |-> "",
     blank |-> FALSE, right |-> FALSE, withRequest |-> FALSE, ip |-> NoIp, t |-> 0,
     ret |-> "None", exc |-> "", checked |-> FALSE, locked |-> FALSE,
     run |-> 0, pre |-> <<>>]

NoSave ==
    [op |-> "none", pk |-> "none", t |-> 0, fields |-> {}, exc |-> "",
     pre |-> <<>>]

\* The account is as a new account is: no failure counted, no lock.
Fresh(user) == user.failed_login_attempts = 0 /\ user.locked_until = Null

\* The two-failures, success, two-failures scenario.
Scenario == <<"fail", "fail", "ok", "fail", "fail">>

IsPrefix(s, t) == Len(s) <= Len(t) /\ SubSeq(t, 1, Len(s)) = s

Suffix(s, n) == SubSeq(s, Len(s) - n + 1, Len(s))

\* The longest tail of s that the scenario begins with.
Trim(s) ==
    LET fits == {n \in 0..Len(s) : IsPrefix(Suffix(s, n), Scenario)}
    IN  Suffix(s, CHOOSE n \in fits : \A m \in fits : m <= n)

\* How a call that reached an account ended.
Outcome(r) ==
    IF r.ret = "user" THEN "ok"
    ELSE IF r.ret = "None" /\ r.checked THEN "fail"
    ELSE "other"

NextRecent(old, r) ==
    IF Outcome(r) = "other" THEN <<>> ELSE Trim(Append(old, Outcome(r)))

\* Wrong-password calls in a row that began with the account fresh.  Once
\* three are counted the count stands while the lock they set lasts.
NextWrongRun(old, user, right, t) ==
    IF old = 3 /\ t <= user.locked_until THEN 3
    ELSE IF right THEN 0
    ELSE IF old \in {1, 2} THEN old + 1
    ELSE IF Fresh(user) THEN 1
    ELSE 0

\* No model method has been called.
NoAppOp == [op |-> "none"]

\* The store and the people tables are not looked at.
AppIdle ==
    /\ orders = <<>>
    /\ stock = <<>>
    /\ coupons = <<>>
    /\ people = <<>>
    /\ addresses = <<>>
    /\ parent = <<>>
    /\ appOp = NoAppOp

\* The audit layer at rest.
NoInstance == NewInstance(NoPk)

NoOp ==
    [op |-> "none", qs |-> BaseQuerySet, target |-> NoPk, actor |-> NoUser,
     t |-> 0, ret |-> 0, seen |-> {}, after |-> "none", pre |-> <<>>,
     held |-> NoInstance]

NoBlock == [op |-> "none", t |-> 0, actor |-> NoUser, first |-> Null]

NoTx == [pc |-> "none"]

NoCalls == <<>>

\* No table is looked at.
AuditIdle ==
    /\ records = <<>>
    /\ kind = "Person"
    /\ instance = NoInstance
    /\ lastOp = NoOp
    /\ blockLog = [id \in Ids |-> NoBlock]
    /\ tx = NoTx

----------------------------------------------------------------------------
(* Actions *)

\* empty, the two usernames (n1 is also the e-mail of u2), the e-mail of u1,
\* and a string no account has
Identifiers == {"", "n1", "n2", "e1", "zz"}

Passwords == {""} \cup RawPasswords

\* The accounts as created, no call made yet.
AccountsInit ==
    /\ now = 0
    /\ users = InitialUsers
    /\ last = NoCall
    /\ wrongRun = [u \in Accounts |-> 0]
    /\ recent = [u \in Accounts |-> <<>>]
    /\ lastSave = NoSave

Init ==
    /\ AccountsInit
    /\ AuditIdle
    /\ calls = NoCalls
    /\ AppIdle

\* Time passes.
Tick ==
    /\ now + TickStep <= MaxTime
    /\ now' = now + TickStep
    /\ last' = NoCall
    /\ lastSave' = NoSave
    /\ UNCHANGED <<users, wrongRun, recent, auditVars, calls, appVars>>

\* One call of CustomModelBackend.authenticate, from entry to return.
Authenticate(request, username, password) ==
    \E r \in {authenticate(users, request, username, password, now)} :
    LET right == r.pk # "none" /\ check_password(users[r.pk], password)
    IN  /\ users' = r.db
        /\ last' = [op |-> "authenticate", pk |-> r.pk, by |-> r.by,
                    username |-> username,
                    blank |-> username = "" \/ password = "",
                    right |-> right,
                    withRequest |-> request.kind # "None",
                    ip |-> ClientIp(request), t |-> now,
                    ret |-> r.ret, exc |-> r.exc, checked |-> r.checked,
                    locked |-> r.locked,
                    run |-> IF r.pk = "none" THEN 0 ELSE wrongRun[r.pk],
                    pre |-> users]
        /\ wrongRun' = [u \in Accounts |->
                          IF u = r.pk
                          THEN NextWrongRun(wrongRun[u], users[u], right, now)
                          ELSE wrongRun[u]]
        /\ recent' = [u \in Accounts |->
                          IF u = r.pk THEN NextRecent(recent[u], r)
                          ELSE recent[u]]
        /\ lastSave' = NoSave
        /\ UNCHANGED <<now, auditVars, calls, appVars>>

\* A caller loads a user, edits it and saves it: set_password(raw) and
\* save() as in add_superuser.py:47-48, save(update_fields=["password"]),
\* or an edit of another field saved alone.
SaveUser(pk, raw, fields) ==
    LET loaded == users[pk]
        edited == IF "password" \in fields
                  THEN [loaded EXCEPT !.password = make_password(raw)]
                  ELSE [loaded EXCEPT !.is_temporary = ~@]
    IN  \E s \in {save(users, edited, fields, now, 0)} :
        /\ users' = s.db
        /\ lastSave' = [op |-> "save", pk |-> pk, t |-> now,
                        fields |-> fields, exc |-> s.exc, pre |-> users]
        /\ last' = NoCall
        /\ UNCHANGED <<now, wrongRun, recent, auditVars, calls, appVars>>

SaveFields == {AllFields, {"password"}, {"is_temporary"}}

----------------------------------------------------------------------------
(* Actions of the audit layer *)

\* A table of one of the model classes holding the rows ids, saved by
\* different staff users, none deleted or blocked.
AuditStart(ids) ==
    /\ kind \in ModelClasses
    /\ records = [id \in ids |->
                    [NewInstance(id) EXCEPT
                        !.updated_by = IF id = "r1" THEN "alice" ELSE "bob"]]
    /\ instance = NoInstance
    /\ lastOp = NoOp
    /\ blockLog = [id \in Ids |-> NoBlock]
    /\ tx = NoTx

\* The collections callers hand to the bulk transitions: the default
\* manager (as the admin actions do), all_with_deleted() or deleted(),
\* narrowed to the selected primary keys.
Collections ==
    {filter_pk(base, pks) :
        base \in {get_queryset(kind), all_with_deleted, manager_deleted},
        pks \in (SUBSET DOMAIN records) \ {{}}}

\* What the history keeps of a call.
Did(op, qs, target, actor, ret) ==
    [op |-> op, qs |-> qs, target |-> target, actor |-> actor, t |-> now,
     ret |-> ret, seen |-> {}, after |-> lastOp.op, pre |-> records,
     held |-> instance]

\* The block or unblock call op reaches the records ids.
Logged(op, ids, actor) ==
    [id \in Ids |->
        IF id \in ids
        THEN [op |-> op, t |-> now, actor |-> actor,
              first |-> IF op = "block" /\ blockLog[id].first = Null
                        THEN now ELSE blockLog[id].first]
        ELSE blockLog[id]]

\* Time passes.
AuditTick ==
    /\ now + TickStep <= AuditMaxTime
    /\ now' = now + TickStep
    /\ lastOp' = NoOp
    /\ UNCHANGED <<users, last, wrongRun, recent, lastSave, calls, appVars>>
    /\ UNCHANGED <<records, kind, instance, blockLog, tx>>

\* The rest of the state, which the audit layer does not touch.
AuditFrame ==
    UNCHANGED <<now, users, last, wrongRun, recent, lastSave, calls, kind, tx, appVars>>

\* Model.objects.all(), evaluated.
DefaultQuery ==
    /\ lastOp' = [Did("query", get_queryset(kind), NoPk, NoUser, 0)
                    EXCEPT !.seen = Rows(get_queryset(kind), records)]
    /\ UNCHANGED <<records, instance, blockLog>>
    /\ AuditFrame

\* A caller fetches a row into memory: all_with_deleted().get(pk=id).
GetInstance(id) ==
    /\ id \in DOMAIN records
    /\ instance' = records[id]
    /\ lastOp' = Did("get", filter_pk(all_with_deleted, {id}), id, NoUser, 0)
    /\ UNCHANGED <<records, blockLog>>
    /\ AuditFrame

SoftDeleteInstance(user) ==
    /\ instance.id # NoPk
    /\ \E r \in {soft_delete_instance(records, instance, user, now)} :
          /\ records' = r.db
          /\ instance' = r.inst
    /\ lastOp' = Did("soft_delete_instance", BaseQuerySet, instance.id, user, 0)
    /\ UNCHANGED blockLog
    /\ AuditFrame

RestoreInstance(user) ==
    /\ instance.id # NoPk
    /\ \E r \in {restore_instance(records, instance, user)} :
          /\ records' = r.db
          /\ instance' = r.inst
    /\ lastOp' = Did("restore_instance", BaseQuerySet, instance.id, user, 0)
    /\ UNCHANGED blockLog
    /\ AuditFrame

BlockInstance(user) ==
    /\ instance.id # NoPk
    /\ \E r \in {block_instance(records, instance, user, now)} :
          /\ records' = r.db
          /\ instance' = r.inst
    /\ lastOp' = Did("block_instance", BaseQuerySet, instance.id, user, 0)
    /\ blockLog' = Logged("block", {instance.id}, user)
    /\ AuditFrame

UnblockInstance(user) ==
    /\ instance.id # NoPk
    /\ \E r \in {unblock_instance(records, instance, user)} :
          /\ records' = r.db
          /\ instance' = r.inst
    /\ lastOp' = Did("unblock_instance", BaseQuerySet, instance.id, user, 0)
    /\ blockLog' = Logged("unblock", {instance.id}, user)
    /\ AuditFrame

\* admin.py:144-155 and any other caller of bulk_soft_delete.
BulkSoftDelete(qs, user) ==
    /\ \E r \in {bulk_soft_delete(qs, records, user, now)} :
          /\ records' = r.db
          /\ lastOp' = Did("bulk_soft_delete", qs, NoPk, user, r.count)
    /\ UNCHANGED <<instance, blockLog>>
    /\ AuditFrame

\* admin.py:181-192
BulkRestore(qs, user) ==
    /\ \E r \in {bulk_restore(qs, records, user)} :
          /\ records' = r.db
          /\ lastOp' = Did("bulk_restore", qs, NoPk, user, r.count)
    /\ UNCHANGED <<instance, blockLog>>
    /\ AuditFrame

\* Model.objects.restore()
ManagerRestore ==
    /\ \E r \in {manager_restore(kind, records)} :
          /\ records' = r.db
          /\ lastOp' = Did("manager_restore", get_queryset(kind), NoPk,
                           NoUser, r.count)
    /\ UNCHANGED <<instance, blockLog>>
    /\ AuditFrame

\* admin.py:157-166
BulkBlock(qs, user) ==
    /\ \E r \in {bulk_block(qs, records, user, now)} :
          /\ records' = r.db
          /\ lastOp' = Did("bulk_block", qs, NoPk, user, r.count)
    /\ blockLog' = Logged("block", Rows(qs, records), user)
    /\ UNCHANGED instance
    /\ AuditFrame

\* admin.py:168-179
BulkUnblock(qs, user) ==
    /\ \E r \in {bulk_unblock(qs, records, user)} :
          /\ records' = r.db
          /\ lastOp' = Did("bulk_unblock", qs, NoPk, user, r.count)
    /\ blockLog' = Logged("unblock", Rows(qs, records), user)
    /\ UNCHANGED instance
    /\ AuditFrame

\* The add view (a new instance) or the change view (the stored row, as the
\* form loads it) of BaseAuditAdmin, saved by a staff user.
AdminSave(id, user) ==
    /\ id \in Ids
    /\ LET obj == IF id \in DOMAIN records THEN records[id]
                  ELSE NewInstance(id)
       IN  /\ records' = save_model(records, user, obj)
           /\ lastOp' = Did(IF id \in DOMAIN records THEN "change" ELSE "add",
                            BaseQuerySet, id, user, 0)
    /\ UNCHANGED <<instance, blockLog>>
    /\ AuditFrame

DeleteNext ==
    \/ AuditTick
    \/ DefaultQuery
    \/ \E id \in Ids : GetInstance(id)
    \/ \E user \in Actors : SoftDeleteInstance(user)
    \/ \E user \in Actors : RestoreInstance(user)
    \/ \E qs \in Collections, user \in Actors : BulkSoftDelete(qs, user)
    \/ \E qs \in Collections, user \in Actors : BulkRestore(qs, user)
    \/ ManagerRestore

BlockNext ==
    \/ AuditTick
    \/ \E id \in Ids : GetInstance(id)
    \/ \E user \in Actors : SoftDeleteInstance(user)
    \/ \E user \in Actors : RestoreInstance(user)
    \/ \E user \in Actors : BlockInstance(user)
    \/ \E user \in Actors : UnblockInstance(user)
    \/ \E qs \in Collections, user \in Actors : BulkSoftDelete(qs, user)
    \/ \E qs \in Collections, user \in Actors : BulkRestore(qs, user)
    \/ \E qs \in Collections, user \in Actors : BulkBlock(qs, user)
    \/ \E qs \in Collections, user \in Actors : BulkUnblock(qs, user)

AdminNext ==
    \/ AuditTick
    \/ \E id \in Ids, user \in Actors : AdminSave(id, user)

----------------------------------------------------------------------------
(* A bulk transition inside transaction.atomic, statement by row, with     *)
(* other requests reading the table meanwhile                             *)

\* A caller enters a bulk transition: the atomic block opens.
TxOpen(op, qs, user) ==
    /\ tx.pc \in {"none", "committed", "failed"}
    /\ tx' = [pc |-> "open", op |-> op, qs |-> qs, actor |-> user, t |-> now,
              pre |-> records, pending |-> records,
              todo |-> qs.pks \cap DOMAIN records, count |-> 0,
              raised |-> FALSE]
    /\ lastOp' = NoOp
    /\ UNCHANGED <<now, users, last, wrongRun, recent, lastSave, calls, appVars>>
    /\ UNCHANGED <<records, kind, instance, blockLog>>

\* The UPDATE of the transition reaches one more row; nothing is committed.
TxWriteRow(id) ==
    /\ tx.pc = "open"
    /\ id \in tx.todo
    /\ \E r \in {bulk_call(tx.op, filter_pk(tx.qs, {id}), tx.pending,
                           tx.actor, tx.t)} :
          tx' = [tx EXCEPT !.pending = r.db, !.todo = @ \ {id},
                           !.count = @ + r.count]
    /\ UNCHANGED <<now, users, last, wrongRun, recent, lastSave, calls, appVars>>
    /\ UNCHANGED <<records, kind, instance, lastOp, blockLog>>

\* The UPDATE is through and the call returns its count.
TxCommit ==
    /\ tx.pc = "open"
    /\ tx.todo = {}
    /\ records' = atomic_commit(records, tx.pending)
    /\ tx' = [tx EXCEPT !.pc = "committed"]
    /\ UNCHANGED <<now, users, last, wrongRun, recent, lastSave, calls, appVars>>
    /\ UNCHANGED <<kind, instance, lastOp, blockLog>>

\* The storage fails at some point of the UPDATE.  No bulk transition
\* catches the exception.
TxError ==
    /\ tx.pc = "open"
    /\ records' = atomic_rollback(records, tx.pending)
    /\ tx' = [tx EXCEPT !.pc = "failed", !.raised = TRUE]
    /\ UNCHANGED <<now, users, last, wrongRun, recent, lastSave, calls, appVars>>
    /\ UNCHANGED <<kind, instance, lastOp, blockLog>>

\* Another request reads the table.
Observe ==
    /\ tx.pc # "none"
    /\ lastOp' = Did("observe", all_with_deleted, NoPk, NoUser, 0)
    /\ UNCHANGED <<records, instance, blockLog>>
    /\ AuditFrame

TxNext ==
    \/ \E op \in BulkOps, qs \in Collections, user \in Actors :
          TxOpen(op, qs, user)
    \/ \E id \in Ids : TxWriteRow(id)
    \/ TxCommit
    \/ TxError
    \/ Observe

----------------------------------------------------------------------------
(* authenticate, statement by statement, in two workers of the server *)

Workers == {"w1", "w2"}

IdleCall == [pc |-> "idle", expired |-> FALSE]

\* The identifiers of account u1, and a right and a wrong password.
ConcurrentIdentifiers == {"n1", "e1"}

\* auth_backend.py:19-27: the worker has fetched its copy of the row.
CallEnter(w, username, password) ==
    /\ calls[w].pc = "idle"
    /\ username # "" /\ password # ""
    /\ \E found \in {FindUser(users, username)} :
          /\ found.exc = ""
          /\ calls' = [calls EXCEPT ![w] =
                          [pc |-> "loaded", user |-> users[found.pk],
                           password |-> password, expired |-> FALSE]]
    /\ UNCHANGED <<now, users, last, wrongRun, recent, lastSave, auditVars, appVars>>

\* auth_backend.py:29-31: _is_account_locked on the worker's copy.
CallLockCheck(w) ==
    /\ calls[w].pc = "loaded"
    /\ \E r \in {is_account_locked(users, calls[w].user, now)} :
          /\ users' = r.db
          /\ calls' = [calls EXCEPT ![w] =
                IF r.locked \/ r.exc # "" THEN IdleCall
                ELSE [pc |-> "unlocked", user |-> r.user,
                      password |-> calls[w].password,
                      expired |-> calls[w].user.locked_until # Null,
                      wrote |-> <<r.db[r.user.id].failed_login_attempts,
                                  r.db[r.user.id].locked_until>>]]
          /\ wrongRun' = IF ~r.locked /\ calls[w].user.locked_until # Null
                          THEN [wrongRun EXCEPT ![r.user.id] = 0]
                          ELSE wrongRun
    /\ UNCHANGED <<now, last, recent, lastSave, auditVars, appVars>>

\* auth_backend.py:33-38: the password check and its handler.
CallPassword(w) ==
    /\ calls[w].pc = "unlocked"
    /\ \E r \in {IF check_password(calls[w].user, calls[w].password)
                 THEN handle_successful_login(users, calls[w].user,
                                              PlainRequest(DirectMeta), now)
                 ELSE handle_failed_login(users, calls[w].user,
                                          PlainRequest(DirectMeta), now)} :
          users' = r.db
    /\ LET pk == calls[w].user.id
           right == check_password(calls[w].user, calls[w].password)
       IN  /\ last' = [op |-> "overlapping", pk |-> pk, right |-> right,
                       t |-> now, pre |-> users, copy |-> calls[w].user]
           /\ wrongRun' = [wrongRun EXCEPT ![pk] =
                              IF right THEN 0
                              ELSE IF @ < max_attempts THEN @ + 1 ELSE @]
    /\ calls' = [calls EXCEPT ![w] = IdleCall]
    /\ UNCHANGED <<now, recent, lastSave, auditVars, appVars>>

ConcurrentNext ==
    \/ Tick
    \/ \E w \in Workers, username \in ConcurrentIdentifiers,
          password \in RawPasswords : CallEnter(w, username, password)
    \/ \E w \in Workers : CallLockCheck(w)
    \/ \E w \in Workers : CallPassword(w)

----------------------------------------------------------------------------
(* Requests that fetch an order and call one of its methods *)

\* Two orders, each PENDING or moved to PROCESSING by staff, none paid.
ShopStart ==
    /\ orders \in {[o \in OrderIds |-> NewOrder(o, st[o])] :
                      st \in [OrderIds -> {"PENDING", "PROCESSING"}]}
    /\ stock = InitialStock
    /\ appOp = [op |-> "none", restored |-> [o \in OrderIds |-> 0]]

ShopFrame ==
    UNCHANGED <<now, users, last, wrongRun, recent, lastSave, auditVars,
                calls, coupons, people, addresses, parent>>

\* What the history keeps of a call on the order pk.
DidOrder(op, pk, ret) ==
    [op |-> op, pk |-> pk, ret |-> ret, pre |-> orders, preStock |-> stock,
     restored |-> IF op = "cancel_order" /\ ret
                  THEN [appOp.restored EXCEPT ![pk] = @ + 1]
                  ELSE appOp.restored]

MarkAsPaid(pk, payment_date) ==
    /\ orders' = mark_as_paid(orders, orders[pk], payment_date, now)
    /\ appOp' = DidOrder("mark_as_paid", pk, FALSE)
    /\ UNCHANGED stock
    /\ ShopFrame

MarkAsShipped(pk, tracking_number) ==
    /\ orders' = mark_as_shipped(orders, orders[pk], tracking_number, now)
    /\ appOp' = DidOrder("mark_as_shipped", pk, FALSE)
    /\ UNCHANGED stock
    /\ ShopFrame

CancelOrder(pk, reason) ==
    /\ \E r \in {cancel_order(orders, stock, orders[pk], reason)} :
          /\ orders' = r.db
          /\ stock' = r.stock
          /\ appOp' = DidOrder("cancel_order", pk, r.ret)
    /\ ShopFrame

OrderNext ==
    \/ \E pk \in OrderIds, payment_date \in {Null, 3} :
          MarkAsPaid(pk, payment_date)
    \/ \E pk \in OrderIds, tracking_number \in {NoText, "trk"} :
          MarkAsShipped(pk, tracking_number)
    \/ \E pk \in OrderIds, reason \in {NoText, "why"} :
          CancelOrder(pk, reason)

----------------------------------------------------------------------------
(* Requests that fetch a person and approve or reject it *)

PeopleStart ==
    /\ people \in {[h \in PersonIds |-> NewPerson(h, v)] : v \in BOOLEAN}
    /\ appOp = NoAppOp

PeopleFrame ==
    UNCHANGED <<now, users, last, wrongRun, recent, lastSave, auditVars,
                calls, orders, stock, coupons, addresses, parent>>

DidPerson(op, pk, user, exc) ==
    [op |-> op, pk |-> pk, actor |-> user, t |-> now, exc |-> exc,
     pre |-> people]

Approve(pk, user) ==
    /\ \E r \in {approve(people, people[pk], user, now)} :
          /\ people' = r.db
          /\ appOp' = DidPerson("approve", pk, user, r.exc)
    /\ PeopleFrame

Reject(pk, user) ==
    /\ \E r \in {reject(people, people[pk], user, now)} :
          /\ people' = r.db
          /\ appOp' = DidPerson("reject", pk, user, r.exc)
    /\ PeopleFrame

PeopleNext ==
    \/ Tick
    \/ \E pk \in PersonIds, user \in Actors : Approve(pk, user)
    \/ \E pk \in PersonIds, user \in Actors : Reject(pk, user)

----------------------------------------------------------------------------
(* Requests that create, fetch and save addresses *)

AddressFrame ==
    UNCHANGED <<now, users, last, wrongRun, recent, lastSave, auditVars,
                calls, orders, stock, coupons, people, parent>>

DidAddress(op, pk, is_default, is_billing) ==
    [op |-> op, pk |-> pk, is_default |-> is_default,
     is_billing |-> is_billing, pre |-> addresses]

CreateAddress(pk, person, is_default, is_billing) ==
    /\ pk \notin DOMAIN addresses
    /\ addresses' = create_address(addresses, pk, person, is_default,
                                   is_billing)
    /\ appOp' = DidAddress("create_address", pk,
                           IF is_default THEN "True" ELSE "False",
                           IF is_billing THEN "True" ELSE "False")
    /\ AddressFrame

UpdateAddress(pk, is_default, is_billing) ==
    /\ pk \in DOMAIN addresses
    /\ addresses' = update_address(addresses, addresses[pk], is_default,
                                   is_billing)
    /\ appOp' = DidAddress("update_address", pk, is_default, is_billing)
    /\ AddressFrame

\* The caller sets the two flags on the instance and saves it.
SaveAddress(pk, is_default, is_billing) ==
    /\ pk \in DOMAIN addresses
    /\ addresses' = Address_save(addresses,
                                 [addresses[pk] EXCEPT
                                    !.is_default = is_default,
                                    !.is_billing = is_billing])
    /\ appOp' = DidAddress("save", pk,
                           IF is_default THEN "True" ELSE "False",
                           IF is_billing THEN "True" ELSE "False")
    /\ AddressFrame

SetAsDefault(pk) ==
    /\ pk \in DOMAIN addresses
    /\ addresses' = set_as_default(addresses, addresses[pk])
    /\ appOp' = DidAddress("set_as_default", pk, "True", "None")
    /\ AddressFrame

AddressNext ==
    \/ \E pk \in AddressIds, person \in Owners, d \in BOOLEAN,
          b \in BOOLEAN : CreateAddress(pk, person, d, b)
    \/ \E pk \in AddressIds, d \in Flags, b \in Flags :
          UpdateAddress(pk, d, b)
    \/ \E pk \in AddressIds, d \in BOOLEAN, b \in BOOLEAN :
          SaveAddress(pk, d, b)
    \/ \E pk \in AddressIds : SetAsDefault(pk)

----------------------------------------------------------------------------
(* Requests that apply coupons to orders *)

CouponStart ==
    /\ orders = [o \in OrderIds |-> NewOrder(o, "PENDING")]
    /\ coupons = InitialCoupons
    /\ appOp = [op |-> "none", applied |-> [c \in CouponCodes |-> 0]]

CouponFrame ==
    UNCHANGED <<now, users, last, wrongRun, recent, lastSave, auditVars,
                calls, stock, people, addresses, parent>>

\* The history counts the applications that returned True, per coupon.
ApplyCoupon(pk, coupon_code) ==
    /\ coupon_code \in CouponCodes => appOp.applied[coupon_code] < MaxApplied
    /\ \E r \in {apply_coupon(orders, coupons, orders[pk], coupon_code, now)} :
          /\ orders' = r.db
          /\ appOp' = [op |-> "apply_coupon", pk |-> pk,
                       code |-> coupon_code, ret |-> r.ret, pre |-> orders,
                       applied |-> IF r.ret
                                   THEN [appOp.applied EXCEPT
                                            ![coupon_code] = @ + 1]
                                   ELSE appOp.applied]
    /\ UNCHANGED coupons
    /\ CouponFrame

\* A caller of its own counts a use of the coupon.
IncrementUsage(coupon_code) ==
    /\ coupon_code \in DOMAIN coupons
    /\ coupons[coupon_code].usage_count < MaxApplied
    /\ coupons' = increment_usage(coupons, coupons[coupon_code])
    /\ appOp' = [op |-> "increment_usage", pk |-> NoPk, code |-> coupon_code,
                 ret |-> FALSE, pre |-> orders, applied |-> appOp.applied]
    /\ UNCHANGED orders
    /\ CouponFrame

CouponNext ==
    \/ \E pk \in OrderIds, coupon_code \in CodeInputs :
          ApplyCoupon(pk, coupon_code)
    \/ \E coupon_code \in CouponCodes : IncrementUsage(coupon_code)

----------------------------------------------------------------------------
(* Edits of categories that pass Category.clean, and walks to the root *)

TreeFrame ==
    UNCHANGED <<now, users, last, wrongRun, recent, lastSave, auditVars,
                calls, orders, stock, coupons, people, addresses>>

\* The change form of a category: full_clean, then save.
SaveCategory(cat, new_parent) ==
    /\ parent' = IF CategoryCleanFails(cat, new_parent) THEN parent
                 ELSE [parent EXCEPT ![cat] = new_parent]
    /\ appOp' = [op |-> "save", pk |-> cat, arg |-> new_parent,
                 exc |-> IF CategoryCleanFails(cat, new_parent)
                         THEN "ValidationError" ELSE "",
                 ends |-> TRUE]
    /\ TreeFrame

Ancestors(cat) ==
    /\ appOp' = [op |-> "ancestors", pk |-> cat, arg |-> NoPk, exc |-> "",
                 ends |-> ancestors(parent, cat)]
    /\ UNCHANGED parent
    /\ TreeFrame

TreeNext ==
    \/ \E cat \in Categories, new_parent \in Categories \cup {NoPk} :
          SaveCategory(cat, new_parent)
    \/ \E cat \in Categories : Ancestors(cat)

AuthNext ==
    \/ Tick
    \/ \E request \in Requests, username \in Identifiers,
          password \in Passwords : Authenticate(request, username, password)

\* The calls a login view makes, with its request.
LookupNext ==
    \/ Tick
    \/ \E username \in Identifiers, password \in Passwords :
          Authenticate(PlainRequest(DirectMeta), username, password)

PasswordNext ==
    \/ Tick
    \/ \E pk \in Accounts, raw \in RawPasswords, fields \in SaveFields :
          SaveUser(pk, raw, fields)

Next == AuthNext

\* The accounts under authenticate calls.
Spec == Init /\ [][Next]_vars

\* The accounts under saves of users.
SpecPassword == Init /\ [][PasswordNext]_vars

\* Two accounts registered with the same e-mail address (the column is
\* not unique).
SharedEmailUsers ==
    [u \in Accounts |->
        IF u = "u1" THEN NewUser("u1", "n1", "e1", "pw1")
                    ELSE NewUser("u2", "n2", "e1", "pw2")]

InitLookup ==
    /\ now = 0
    /\ users = SharedEmailUsers
    /\ last = NoCall
    /\ wrongRun = [u \in Accounts |-> 0]
    /\ recent = [u \in Accounts |-> <<>>]
    /\ lastSave = NoSave
    /\ AuditIdle /\ calls = NoCalls /\ AppIdle

\* The accounts with a shared e-mail address under authenticate calls.
SpecLookup == InitLookup /\ [][LookupNext]_vars

\* A table of two rows under deletion and restoring.
InitAudit == AccountsInit /\ calls = NoCalls /\ AuditStart(Ids) /\ AppIdle

SpecAudit == InitAudit /\ [][DeleteNext]_vars

\* A table of one row under deletion, restoring, blocking and unblocking.
InitBlock ==
    AccountsInit /\ calls = NoCalls /\ AuditStart({"r1"}) /\ AppIdle

SpecBlock == InitBlock /\ [][BlockNext]_vars

\* A table of two rows under bulk transitions that can fail, and readers.
SpecBulkTx == InitAudit /\ [][TxNext]_vars

\* The accounts under two workers that interleave their authenticate calls.
InitConcurrent ==
    /\ AccountsInit /\ AuditIdle /\ calls = [w \in Workers |-> IdleCall]
    /\ AppIdle

SpecConcurrent == InitConcurrent /\ [][ConcurrentNext]_vars

\* An empty table under the add and change views of the admin.
InitAdmin == AccountsInit /\ calls = NoCalls /\ AuditStart({}) /\ AppIdle

SpecAdmin == InitAdmin /\ [][AdminNext]_vars

\* Two orders under payment, shipping and cancelling.
InitOrder ==
    /\ AccountsInit /\ AuditIdle /\ calls = NoCalls
    /\ ShopStart
    /\ coupons = <<>> /\ people = <<>> /\ addresses = <<>> /\ parent = <<>>

SpecOrder == InitOrder /\ [][OrderNext]_vars

\* A person under approvals and rejections.
InitPeople ==
    /\ AccountsInit /\ AuditIdle /\ calls = NoCalls
    /\ PeopleStart
    /\ orders = <<>> /\ stock = <<>> /\ coupons = <<>>
    /\ addresses = <<>> /\ parent = <<>>

SpecPeople == InitPeople /\ [][PeopleNext]_vars

\* The addresses of two persons, from none on.
InitAddress ==
    /\ AccountsInit /\ AuditIdle /\ calls = NoCalls
    /\ addresses = <<>> /\ appOp = NoAppOp
    /\ orders = <<>> /\ stock = <<>> /\ coupons = <<>>
    /\ people = <<>> /\ parent = <<>>

SpecAddress == InitAddress /\ [][AddressNext]_vars

\* Two orders and two coupons under apply_coupon.
InitCoupon ==
    /\ AccountsInit /\ AuditIdle /\ calls = NoCalls
    /\ CouponStart
    /\ stock = <<>> /\ people = <<>> /\ addresses = <<>> /\ parent = <<>>

SpecCoupon == InitCoupon /\ [][CouponNext]_vars

\* Three root categories under validated edits of their parents.
InitTree ==
    /\ AccountsInit /\ AuditIdle /\ calls = NoCalls
    /\ parent = [k \in Categories |-> NoPk]
    /\ appOp = NoAppOp
    /\ orders = <<>> /\ stock = <<>> /\ coupons = <<>>
    /\ people = <<>> /\ addresses = <<>>

SpecTree == InitTree /\ [][TreeNext]_vars

TypeOK ==
    /\ now \in 0..MaxTime
    /\ \A u \in Accounts :
          /\ users[u].failed_login_attempts \in Nat
          /\ users[u].locked_until \in {Null} \cup Nat
    /\ wrongRun \in [Accounts -> 0..3]

----------------------------------------------------------------------------
(* Properties of the lockout, checked under Spec *)

\* The last step was an authenticate call that found an account.
Reached == last.op = "authenticate" /\ last.pk # "none"

\* The row of that account before and after the call.
Before == last.pre[last.pk]
After == users[last.pk]

\* C1: after three wrong-password calls in a row on an account that had no
\* failure counted and no lock, every call for it made while locked_until
\* has not passed is refused, a call with the correct password included.
C1_RefusedAfterThreeFailures ==
    (Reached /\ last.run = 3 /\ last.t <= Before.locked_until)
        => (last.ret = "None" /\ last.exc = "")

\* The correct password is refused after the three failures.
C1_Witness ==
    /\ Reached /\ last.run = 3 /\ last.right
    /\ last.t <= Before.locked_until
    /\ last.ret = "None"

\* The call meets a lock whose time has passed.
PostExpiry == Reached /\ Before.locked_until # Null /\ last.t > Before.locked_until

\* C2 as stated: the first call after the lock has expired has its password
\* checked and leaves failed_login_attempts at 0.
C2_CounterZeroAfterExpiry ==
    PostExpiry => (~last.locked /\ last.checked
                   /\ After.failed_login_attempts = 0)

\* C2: the first call after the lock has expired has its password checked,
\* finds the counter reset, and leaves failed_login_attempts at 0 when its
\* password is correct and at 1 when it is wrong; the lock is cleared.
C2_CounterRestartsAfterExpiry ==
    PostExpiry => /\ ~last.locked /\ last.checked
                  /\ After.failed_login_attempts = (IF last.right THEN 0 ELSE 1)
                  /\ After.locked_until = Null

\* A wrong password right after expiry: the counter is 1.
C2_Witness ==
    PostExpiry /\ ~last.right /\ After.failed_login_attempts = 1

\* C3: while locked_until lies in the future, a call is refused without the
\* password being checked and changes nothing in the table.
C3_LockedCallChangesNothing ==
    (Reached /\ Before.locked_until # Null /\ Before.locked_until > last.t)
        => /\ last.ret = "None" /\ last.exc = ""
           /\ ~last.checked
           /\ users = last.pre

\* A correct password meets a lock that lies in the future.
C3_Witness ==
    /\ Reached /\ Before.locked_until > last.t /\ last.right
    /\ last.ret = "None" /\ users = last.pre

\* C4: the stored counter stays within 0..3.
C4_CounterRange ==
    \A u \in Accounts :
        /\ 0 <= users[u].failed_login_attempts
        /\ users[u].failed_login_attempts <= 3

\* The counter is at 3 again after a lock has expired once.
C4_Witness ==
    /\ Reached /\ last.checked /\ After.failed_login_attempts = 3
    /\ last.t > lock_minutes

\* The call was a checked, refused password.
Failure == Reached /\ last.checked /\ last.ret = "None"

\* C5: a counter of 3 or more goes with a lock, and the failure that brings
\* the counter to 3 writes locked_until as its own time plus 15 minutes.
C5_ThirdFailureLocks ==
    /\ \A u \in Accounts :
          users[u].failed_login_attempts >= 3 => users[u].locked_until # Null
    /\ (Failure /\ After.failed_login_attempts >= 3)
          => /\ After.locked_until = last.t + 15
             /\ After.locked_until > last.t

\* The third failure has just been counted.
C5_Witness ==
    /\ Failure /\ Before.failed_login_attempts = 2
    /\ After.failed_login_attempts = 3
    /\ After.locked_until = last.t + 15

C7_LastLoginIpRecorded ==
    (Reached /\ last.ret = "user" /\ last.ip # NoIp)
        => After.last_login_ip = last.ip

\* C8 as stated: without a request, a correct password on an account that
\* is not locked returns the user and resets counter and lock.
C8_RequestOptional ==
    (Reached /\ ~last.withRequest /\ last.right /\ ~last.locked)
        => /\ last.ret = "user"
           /\ After.failed_login_attempts = 0
           /\ After.locked_until = Null

\* The accounts an identifier names.
WithUsername(db, ident) == {u \in Accounts : db[u].username = ident}
WithEmail(db, ident) == {u \in Accounts : db[u].email = ident}

\* C9: a call with an identifier and a password looks the identifier up as
\* a username first and as an e-mail only when no username matches; when
\* nothing matches it returns None, as a wrong password does, and changes no
\* row; when the identifier is the username of A and the e-mail of B, A is
\* checked and no other row changes.
C9_UsernameBeforeEmail ==
    (last.op = "authenticate" /\ ~last.blank) =>
        LET named  == WithUsername(last.pre, last.username)
            mailed == WithEmail(last.pre, last.username)
        IN  /\ named # {} => (last.pk \in named /\ last.by = "username")
            /\ (named = {} /\ mailed # {})
                  => (last.pk \in mailed /\ last.by = "email")
            /\ (named = {} /\ mailed = {})
                  => (last.pk = "none" /\ last.ret = "None"
                      /\ last.exc = "" /\ users = last.pre)
            /\ (last.pk # "none" /\ last.checked /\ ~last.right)
                  => (last.ret = "None" /\ last.exc = "")
            /\ \A u \in Accounts : u # last.pk => users[u] = last.pre[u]

\* The identifier is the username of u1 and the e-mail of u2: u1 is updated.
C9_Witness ==
    /\ last.op = "authenticate" /\ ~last.blank
    /\ WithUsername(last.pre, last.username) = {"u1"}
    /\ WithEmail(last.pre, last.username) = {"u2"}
    /\ last.pk = "u1" /\ users["u1"] # last.pre["u1"]

----------------------------------------------------------------------------
(* Properties of the saves of users, checked under SpecPassword *)

\* C10 as stated: a save that changes the stored password leaves
\* password_change_required false and last_password_change_at at the time
\* of the save; any other save leaves both fields as they were.
C10_PasswordChangeStamped ==
    lastSave.op = "save" =>
        LET old == lastSave.pre[lastSave.pk]
            new == users[lastSave.pk]
        IN  IF new.password # old.password
            THEN /\ new.password_change_required = FALSE
                 /\ new.last_password_change_at = lastSave.t
            ELSE /\ new.password_change_required = old.password_change_required
                 /\ new.last_password_change_at = old.last_password_change_at

----------------------------------------------------------------------------
(* Properties of the audited models, checked under SpecAudit, SpecBlock   *)
(* and SpecAdmin                                                          *)

\* The rows the collection of the last bulk call matched when it was called.
Matched == Rows(lastOp.qs, lastOp.pre)

\* What Model.objects.all() returns on the table db.
DefaultScope(db) == Rows(get_queryset(kind), db)

DeletionOf(row) == <<row.deleted_at, row.deleted_by>>
BlockOf(row) == <<row.blocked_at, row.blocked_by>>

\* C11: a query through the default manager of an audited model never
\* returns a row whose deleted_at is set.
C11_DefaultManagerHidesDeleted ==
    lastOp.op = "query" =>
        \A id \in lastOp.seen : records[id].deleted_at = Null

\* C12: bulk_soft_delete returns the number of rows the collection matched
\* when it was called; afterwards none of those rows is in the default
\* scope, and every other row is in the default scope exactly if it was
\* before the call.
C12_BulkSoftDeleteHidesExactlyMatched ==
    lastOp.op = "bulk_soft_delete" =>
        /\ lastOp.ret = Cardinality(Matched)
        /\ \A id \in DOMAIN records :
              IF id \in Matched
              THEN id \notin DefaultScope(records)
              ELSE id \in DefaultScope(records) <=> id \in DefaultScope(lastOp.pre)

\* C13: after bulk_soft_delete(collection, actor) every row of the
\* collection has deleted_by = actor and a deleted_at that is set, whoever
\* saved it before; the rows outside the collection keep their deleted_at
\* and deleted_by.
C13_BulkSoftDeleteStamps ==
    lastOp.op = "bulk_soft_delete" =>
        \A id \in DOMAIN records :
            IF id \in Matched
            THEN /\ records[id].deleted_by = lastOp.actor
                 /\ records[id].deleted_at # Null
                 /\ records[id].deleted_at = lastOp.t
            ELSE DeletionOf(records[id]) = DeletionOf(lastOp.pre[id])

C13_Witness ==
    /\ lastOp.op = "bulk_soft_delete"
    /\ \E id \in Matched :
          /\ lastOp.pre[id].updated_by # lastOp.actor
          /\ records[id].deleted_by = lastOp.actor
    /\ \E id \in DOMAIN records \ Matched :
          /\ records[id].deleted_at # Null
          /\ records[id].deleted_by # lastOp.actor

\* C14: restore_instance on a record that shows no deletion, neither in
\* storage nor in memory, changes no field in storage or in memory; a
\* second restore_instance right after a first one changes nothing either.
C14_RestoreIdempotent ==
    lastOp.op = "restore_instance" =>
        /\ (/\ lastOp.held.deleted_at = Null
            /\ lastOp.pre[lastOp.target].deleted_at = Null)
                => records = lastOp.pre /\ instance = lastOp.held
        /\ lastOp.after = "restore_instance"
                => records = lastOp.pre /\ instance = lastOp.held

C14_Witness ==
    /\ lastOp.op = "restore_instance"
    /\ lastOp.held.deleted_at = Null
    /\ lastOp.pre[lastOp.target].deleted_at = Null
    /\ lastOp.held # lastOp.pre[lastOp.target]
    /\ instance = lastOp.held

\* C15: soft_delete_instance on a record that is soft-deleted in storage
\* when it is called leaves the stored deleted_at and deleted_by as they
\* were, whichever actor is passed.
C15_SoftDeleteOnceInStorage ==
    (/\ lastOp.op = "soft_delete_instance"
     /\ lastOp.pre[lastOp.target].deleted_at # Null)
        => DeletionOf(records[lastOp.target])
              = DeletionOf(lastOp.pre[lastOp.target])

DeletionOps ==
    {"soft_delete_instance", "restore_instance", "bulk_soft_delete",
     "bulk_restore"}

BlockOps == {"block_instance", "unblock_instance", "bulk_block", "bulk_unblock"}

\* C16: soft delete and restore, single and bulk, leave blocked_at and
\* blocked_by of every row unchanged; block and unblock, single and bulk,
\* leave deleted_at and deleted_by of every row unchanged.
C16_DeletionAndBlockIndependent ==
    /\ lastOp.op \in DeletionOps =>
          \A id \in DOMAIN records :
              BlockOf(records[id]) = BlockOf(lastOp.pre[id])
    /\ lastOp.op \in BlockOps =>
          \A id \in DOMAIN records :
              DeletionOf(records[id]) = DeletionOf(lastOp.pre[id])

C16_Witness ==
    /\ lastOp.op = "bulk_restore"
    /\ lastOp.ret = 1
    /\ \E id \in DOMAIN records :
          /\ lastOp.pre[id].deleted_at # Null
          /\ records[id].deleted_at = Null
          /\ records[id].blocked_at # Null

\* C17: whatever calls came before, a record whose latest block or unblock
\* call was block(actor) has blocked_at = the time of that call and
\* blocked_by = actor; one whose latest such call was unblock has both null.
C17_LastBlockCallWins ==
    \A id \in DOMAIN records :
        /\ blockLog[id].op = "block" =>
              /\ records[id].blocked_at = blockLog[id].t
              /\ records[id].blocked_by = blockLog[id].actor
        /\ blockLog[id].op = "unblock" =>
              /\ records[id].blocked_at = Null
              /\ records[id].blocked_by = NoUser

\* A record blocked a second time, later than the first.
C17_Witness ==
    \E id \in DOMAIN records :
        /\ blockLog[id].op = "block"
        /\ blockLog[id].first # Null
        /\ blockLog[id].t > blockLog[id].first
        /\ records[id].blocked_at = blockLog[id].t
        /\ lastOp.op \in {"block_instance", "bulk_block"}

\* C20: a record created through the admin by an actor has created_by and
\* updated_by = that actor; a later admin save by another actor sets
\* updated_by to that actor and leaves created_by unchanged.
C20_AdminSaveStampsActors ==
    /\ lastOp.op = "add" =>
          /\ records[lastOp.target].created_by = lastOp.actor
          /\ records[lastOp.target].updated_by = lastOp.actor
    /\ lastOp.op = "change" =>
          /\ records[lastOp.target].updated_by = lastOp.actor
          /\ records[lastOp.target].created_by
                = lastOp.pre[lastOp.target].created_by

\* The table after the bulk transition in progress, applied as a whole.
Whole == bulk_call(tx.op, tx.qs, tx.pre, tx.actor, tx.t)

\* C18: during and after a bulk transition the stored table, and what any
\* other request read of it, is either the table before the call or the
\* table with every matching row changed; after a storage error it is the
\* table before the call and the error has reached the caller; after a
\* return it is the changed table and the count is the number of rows.
C18_BulkAllOrNothing ==
    tx.pc # "none" =>
        /\ records \in {tx.pre, Whole.db}
        /\ lastOp.op = "observe" => lastOp.pre \in {tx.pre, Whole.db}
        /\ tx.pc = "failed" => records = tx.pre /\ tx.raised
        /\ tx.pc = "committed" =>
              records = Whole.db /\ tx.count = Whole.count

\* A transition over two rows failed after it had written one.
C18_Witness ==
    /\ tx.pc = "failed"
    /\ Cardinality(Rows(tx.qs, tx.pre)) = 2
    /\ tx.pending # tx.pre
    /\ tx.pending # Whole.db
    /\ records = tx.pre
    /\ lastOp.op = "observe"

\* C19: every lazy-expiry write of a worker stores failed_login_attempts =
\* 0 and locked_until = null, and when both workers have made theirs and
\* neither has gone on, the row holds exactly that.
C19_ExpiryResetsConverge ==
    /\ \A w \in Workers :
          calls[w].expired => calls[w].wrote = <<0, Null>>
    /\ (\A w \in Workers : calls[w].expired) =>
          \A w \in Workers : Fresh(users[calls[w].user.id])

\* Both workers fetched the locked row and both reset it.
C19_Witness ==
    /\ \A w \in Workers :
          /\ calls[w].expired
          /\ calls[w].pc = "unlocked"
          /\ calls[w].user.id = "u1"
    /\ Fresh(users["u1"])

\* The soft-deleted records a restore through the default manager is
\* asked to reach: those of the collection's primary keys.
WasDeleted ==
    {id \in DOMAIN lastOp.pre :
        id \in lastOp.qs.pks /\ lastOp.pre[id].deleted_at # Null}

FromDefaultManager(qs) ==
    \E pks \in SUBSET Ids : qs = filter_pk(get_queryset(kind), pks)

\* C21: after Model.objects.restore(), and after bulk_restore on a
\* collection taken from the default manager, every record of it that was
\* soft-deleted has deleted_at and deleted_by null and is in the default
\* scope again, and the returned count is the number of those records.
C21_RestoreReachesDeleted ==
    (\/ lastOp.op = "manager_restore"
     \/ lastOp.op = "bulk_restore" /\ FromDefaultManager(lastOp.qs))
        => /\ \A id \in WasDeleted :
                 /\ records[id].deleted_at = Null
                 /\ records[id].deleted_by = NoUser
                 /\ id \in DefaultScope(records)
           /\ lastOp.ret = Cardinality(WasDeleted)

----------------------------------------------------------------------------
(* Properties of orders, checked under SpecOrder *)

Terminal == {"COMPLETED", "CANCELLED"}

OrderBefore == appOp.pre[appOp.pk]
OrderAfter == orders[appOp.pk]

\* C22: mark_as_shipped turns PROCESSING into COMPLETED only when the order
\* is paid and otherwise changes no field; cancel_order turns only PENDING
\* or PROCESSING into CANCELLED and otherwise returns False; mark_as_paid
\* never changes status; no call changes a COMPLETED or CANCELLED status.
C22_OrderStatusMachine ==
    appOp.op # "none" =>
        /\ appOp.op = "mark_as_shipped" =>
              IF OrderBefore.paid /\ OrderBefore.status = "PROCESSING"
              THEN OrderAfter.status = "COMPLETED"
              ELSE orders = appOp.pre
        /\ appOp.op = "cancel_order" =>
              IF OrderBefore.status \in {"PENDING", "PROCESSING"}
              THEN OrderAfter.status = "CANCELLED" /\ appOp.ret
              ELSE ~appOp.ret /\ orders = appOp.pre
        /\ appOp.op = "mark_as_paid" =>
              OrderAfter.status = OrderBefore.status
        /\ \A o \in OrderIds :
              \/ orders[o].status = appOp.pre[o].status
              \/ /\ o = appOp.pk
                 /\ appOp.pre[o].status \notin Terminal
                 /\ orders[o].status \in Terminal

\* A paid order that was cancelled is asked to ship.
C22_Witness ==
    /\ appOp.op = "mark_as_shipped"
    /\ OrderBefore.paid
    /\ OrderBefore.status = "CANCELLED"
    /\ OrderAfter.status = "CANCELLED"
    /\ \E o \in OrderIds : orders[o].status = "COMPLETED"

\* The quantity of product p in order o.
Quantity(o, p) ==
    LET at == {i \in DOMAIN OrderItems[o] : OrderItems[o][i].product = p}
    IN  IF at = {} THEN 0 ELSE OrderItems[o][CHOOSE i \in at : TRUE].quantity

\* C23: cancel_order on a PENDING or PROCESSING order adds to the stock of
\* each item's product that item's quantity and returns True; on any other
\* order it returns False and changes no stock; so the stock of an order is
\* given back at most once.
C23_StockRestoredOnce ==
    /\ appOp.op = "cancel_order" =>
          IF OrderBefore.status \in {"PENDING", "PROCESSING"}
          THEN /\ appOp.ret
               /\ \A p \in Products :
                     stock[p] = appOp.preStock[p] + Quantity(appOp.pk, p)
          ELSE ~appOp.ret /\ stock = appOp.preStock
    /\ \A o \in DOMAIN orders : appOp.restored[o] <= 1
    /\ \A p \in DOMAIN stock :
          stock[p] = InitialStock[p]
                        + (IF appOp.restored["o1"] = 1
                           THEN Quantity("o1", p) ELSE 0)
                        + (IF appOp.restored["o2"] = 1
                           THEN Quantity("o2", p) ELSE 0)

\* An order cancelled before is cancelled again.
C23_Witness ==
    /\ appOp.op = "cancel_order"
    /\ appOp.pk = "o1"
    /\ OrderBefore.status = "CANCELLED"
    /\ appOp.restored["o1"] = 1
    /\ ~appOp.ret
    /\ stock["p1"] = InitialStock["p1"] + 2

----------------------------------------------------------------------------
(* Properties of persons, checked under SpecPeople *)

PersonBefore == appOp.pre[appOp.pk]
PersonAfter == people[appOp.pk]

\* C24: approved_at and rejected_at of a person are never both set; an
\* approve that returns leaves the approval stamped and the rejection
\* fields null, a reject that returns the converse; approve on an approved
\* person and reject on a rejected one raise ValidationError and change no
\* field.
C24_ApprovalExclusive ==
    /\ \A h \in DOMAIN people :
          ~(people[h].approved_at # Null /\ people[h].rejected_at # Null)
    /\ appOp.op = "approve" =>
          /\ appOp.exc = "" <=>
                PersonBefore.approved_at = Null /\ PersonBefore.valid
          /\ appOp.exc = "" =>
                /\ PersonAfter.approved_at = appOp.t
                /\ PersonAfter.approved_by = appOp.actor
                /\ PersonAfter.rejected_at = Null
                /\ PersonAfter.rejected_by = NoUser
          /\ appOp.exc # "" =>
                appOp.exc = "ValidationError" /\ people = appOp.pre
    /\ appOp.op = "reject" =>
          /\ appOp.exc = "" <=>
                PersonBefore.rejected_at = Null /\ PersonBefore.valid
          /\ appOp.exc = "" =>
                /\ PersonAfter.rejected_at = appOp.t
                /\ PersonAfter.rejected_by = appOp.actor
                /\ PersonAfter.approved_at = Null
                /\ PersonAfter.approved_by = NoUser
          /\ appOp.exc # "" =>
                appOp.exc = "ValidationError" /\ people = appOp.pre

\* A rejected person is approved, and approved once more later.
C24_Witness ==
    /\ appOp.op = "approve"
    /\ PersonBefore.approved_at # Null
    /\ PersonBefore.approved_at < appOp.t
    /\ PersonBefore.approved_by # appOp.actor
    /\ appOp.exc = "ValidationError"
    /\ people = appOp.pre

----------------------------------------------------------------------------
(* Properties of addresses, checked under SpecAddress *)

\* The other addresses of the person whose address the last call was on.
Siblings ==
    {a \in DOMAIN addresses :
        a # appOp.pk /\ addresses[a].person = addresses[appOp.pk].person}

\* C25: after update_address(a, is_default=True) on an address that was not
\* the default, a is the default in storage and no other address of the
\* person is; the same for is_billing; and no person ever has two default
\* addresses.
C25_OneDefaultAddress ==
    /\ (/\ appOp.op = "update_address"
        /\ appOp.is_default = "True"
        /\ ~appOp.pre[appOp.pk].is_default)
          => /\ addresses[appOp.pk].is_default
             /\ \A a \in Siblings : ~addresses[a].is_default
    /\ (/\ appOp.op = "update_address"
        /\ appOp.is_billing = "True"
        /\ ~appOp.pre[appOp.pk].is_billing)
          => /\ addresses[appOp.pk].is_billing
             /\ \A a \in Siblings : ~addresses[a].is_billing
    /\ \A h \in Owners :
          Cardinality({a \in DOMAIN addresses :
                          addresses[a].person = h /\ addresses[a].is_default})
              <= 1

----------------------------------------------------------------------------
(* Properties of overlapping authenticate calls, checked under            *)
(* SpecConcurrent.  wrongRun counts the wrong-password attempts completed *)
(* since the last success or expiry of a lock.                            *)

LockedNow(user) == user.locked_until # Null /\ now <= user.locked_until

\* C26: a wrong-password attempt that completes on an account stored as
\* unlocked raises the stored failed_login_attempts by exactly one, and
\* when it is the third such attempt with no success in between the
\* account is locked.
C26_NoFailureLost ==
    (last.op = "overlapping" /\ ~last.right) =>
        /\ last.pre[last.pk].locked_until = Null =>
              users[last.pk].failed_login_attempts
                  = last.pre[last.pk].failed_login_attempts + 1
        /\ wrongRun[last.pk] >= max_attempts => LockedNow(users[last.pk])

\* C27: while a stored lock has not expired, no step changes locked_until
\* or the counter of that account.
C27_LockStands ==
    [][\A u \in Accounts :
          LockedNow(users[u]) =>
              /\ users'[u].locked_until = users[u].locked_until
              /\ users'[u].failed_login_attempts
                    = users[u].failed_login_attempts]_vars

----------------------------------------------------------------------------
(* Properties of the lookup, checked under SpecLookup *)

\* C28: every authenticate call ends with the user or with None, whatever
\* the identifier, the password and the stored accounts; none ends with an
\* exception.
C28_NoUnhandledError ==
    last.op = "authenticate" =>
        last.ret \in {"user", "None"} /\ last.exc = ""

----------------------------------------------------------------------------
(* Properties of coupons, checked under SpecCoupon *)

\* C29: a coupon with usage_limit N is applied with success at most N
\* times over all orders, and once it has been applied N times is_valid is
\* False for it.
C29_CouponUsageLimit ==
    \A c \in DOMAIN coupons :
        coupons[c].usage_limit > 0 =>
            /\ appOp.applied[c] <= coupons[c].usage_limit
            /\ appOp.applied[c] = coupons[c].usage_limit
                  => ~is_valid(coupons[c], now)

----------------------------------------------------------------------------
(* Properties of the category tree, checked under SpecTree *)

\* C30: in every parent relation built by saves that pass Category.clean,
\* ancestors() of every category returns.
C30_AncestorsTerminates ==
    /\ appOp.op = "ancestors" => appOp.ends
    /\ \A k \in DOMAIN parent : ancestors(parent, k)

====
